---- MODULE Spec2Model ----
(***************************************************************************)
(* Model of go-combustion: the decoder ExtractCombustionPacket of          *)
(* src/combustion.go, the scanning glue around it (StartMonitoring,        *)
(* onScan, StopMonitoring) and the packet handler of src/example/cmd.      *)
(*                                                                         *)
(* A Go slice is modelled as a function over 0..cap-1 (the backing array,  *)
(* with the source's 0-based indices) together with its length.            *)
(***************************************************************************)
EXTENDS Integers, Sequences, FiniteSets, TLC

\* ---------------------------------------------------------------- bounds

\* Spare capacity behind a short buffer: cap(rawPacket) - len(rawPacket).
MaxSlack == 4
\* Bytes a buffer may hold beyond index 21.
MaxExtra == 1
\* Calls of the decoder on one buffer without a caller write in between.
MaxCalls == 2

\* ------------------------------------------------- integer bit operations

Byte == 0..255

Pow2(n) == 2 ^ n

RECURSIVE BitAnd(_, _)
\* Go's a & b on unsigned operands.
BitAnd(a, b) ==
    IF a = 0 \/ b = 0 THEN 0
    ELSE (a % 2) * (b % 2) + 2 * BitAnd(a \div 2, b \div 2)

RECURSIVE BitOr(_, _)
\* Go's a | b on unsigned operands.
BitOr(a, b) ==
    IF a = 0 THEN b
    ELSE IF b = 0 THEN a
    ELSE (IF a % 2 = 1 \/ b % 2 = 1 THEN 1 ELSE 0) + 2 * BitOr(a \div 2, b \div 2)

\* Go's a >> n on an unsigned operand.
Shr(a, n) == a \div Pow2(n)

\* Go's a << n on a uint16: the bits shifted past bit 15 are lost.
Shl16(a, n) == (a * Pow2(n)) % 65536

\* Go's a + n on a byte: wraps at 256.
AddByte(a, n) == (a + n) % 256

RECURSIVE BitLen(_)
\* Number of significant bits of n.
BitLen(n) == IF n = 0 THEN 0 ELSE 1 + BitLen(n \div 2)

\* ------------------------------------------------------------- slices

\* len of a slice value held as a function over 0..n-1.
SliceLen(s) == Cardinality(DOMAIN s)

\* slices.Reverse(s[lo:hi]) on the backing array s: elements lo..hi-1 are
\* reversed in place, the rest is untouched.
Reverse(s, lo, hi) ==
    [i \in DOMAIN s |-> IF lo <= i /\ i < hi THEN s[lo + hi - 1 - i] ELSE s[i]]

\* ------------------------------------------------------------ float32
(***************************************************************************)
(* A float32 value is held exactly, as sign and magnitude in units of      *)
(* 2^-28, the magnitude split as hi * 2^13 + lo so that every intermediate *)
(* stays below 2^31.  Every value the decoder computes is a multiple of    *)
(* 2^-28: float32(0.05) is 13421773 * 2^-28, raw is an integer below 2^13, *)
(* and rounding only clears low bits.                                      *)
(***************************************************************************)

\* Width of the low part of a magnitude.
LoBits == 13

\* float32(0.05) = 13421773 * 2^-28 = (Scale05Hi * 2^13 + Scale05Lo) * 2^-28.
Scale05Hi == 1638
Scale05Lo == 3277

\* 20.0 = Offset20Hi * 2^13 * 2^-28.
Offset20Hi == 655360

\* Round a magnitude to the 24 significant bits of a float32, ties to even.
RoundFloat32(hi, lo) ==
    LET nb == IF hi > 0 THEN BitLen(hi) + LoBits ELSE BitLen(lo)
    IN  IF nb <= 24 THEN <<hi, lo>>
        ELSE LET s    == nb - 24
                 q    == lo \div Pow2(s)
                 r    == lo % Pow2(s)
                 half == Pow2(s - 1)
                 m    == hi * Pow2(LoBits - s) + q
                 up   == r > half \/ (r = half /\ m % 2 = 1)
                 m2   == IF up THEN m + 1 ELSE m
             IN  <<m2 \div Pow2(LoBits - s), (m2 % Pow2(LoBits - s)) * Pow2(s)>>

\* The exact product float32(raw) * float32(0.05), before any rounding.
MulScale(raw) ==
    LET b == raw * Scale05Lo
    IN  <<raw * Scale05Hi + b \div Pow2(LoBits), b % Pow2(LoBits)>>

\* The exact difference p - 20.0 of a magnitude p, as sign and magnitude.
SubOffset(p) ==
    IF p[1] >= Offset20Hi
    THEN [neg |-> FALSE, mag |-> <<p[1] - Offset20Hi, p[2]>>]
    ELSE IF p[2] = 0
         THEN [neg |-> TRUE, mag |-> <<Offset20Hi - p[1], 0>>]
         ELSE [neg |-> TRUE, mag |-> <<Offset20Hi - p[1] - 1, Pow2(LoBits) - p[2]>>]

\* (float32(raw) * 0.05) - 20.0.  The Go specification lets a build fuse the
\* multiplication and the subtraction into one operation rounded once
\* (arm64, ppc64le, s390x, riscv64 do; amd64 by default does not): fused
\* says which build this is.
fromRawTemp(raw, fused) ==
    LET p == IF fused THEN MulScale(raw)
             ELSE LET e == MulScale(raw) IN RoundFloat32(e[1], e[2])
        d == SubOffset(p)
        m == RoundFloat32(d.mag[1], d.mag[2])
    IN  [neg |-> d.neg, hi |-> m[1], lo |-> m[2]]

\* ---------------------------------------------------- program constants

CombustionManufacuterID == 2503

CombustionUnknownPT == 0

CombustionModeNormal == 0
CombustionModeInstantRead == 1
CombustionModeReserved == 2
CombustionModeError == 3

\* ------------------------------------------------------- encoding/hex

\* The digits hex.EncodeToString writes.
hextable == <<"0", "1", "2", "3", "4", "5", "6", "7",
              "8", "9", "a", "b", "c", "d", "e", "f">>

\* s[lo:hi] as a slice value of its own, indexed from 0.
SubSlice(s, lo, hi) == [i \in 0..(hi - lo - 1) |-> s[lo + i]]

\* hex.EncodeToString(src): two digits per byte, high nibble first.  The
\* string is a sequence of one-character strings.
EncodeToString(src) ==
    [j \in 1..(2 * SliceLen(src)) |->
        LET v == src[(j - 1) \div 2]
        IN  IF j % 2 = 1 THEN hextable[Shr(v, 4) + 1]
            ELSE hextable[BitAnd(v, 15) + 1]]

\* ------------------------------------------- the fields of the packet

\* ProductTypeOf with a table of the six documented product types in front
\* of the conversion.
ProductTypeOfTable(rawPacket) ==
    IF rawPacket[0] <= 5 THEN rawPacket[0] ELSE CombustionUnknownPT

\* packet.ProductType = CombustionProductType(rawPacket[0]): a conversion
\* of the byte to the named byte type, which keeps every value.
ProductTypeOf(rawPacket) == rawPacket[0]

\* SerialNumberOf with the slice one byte early.
SerialNumberOfEarly(rawPacket) == EncodeToString(SubSlice(rawPacket, 0, 4))

\* packet.SerialNumber, read after bytes 1..4 were reversed.
SerialNumberOf(rawPacket) == EncodeToString(SubSlice(rawPacket, 1, 5))

\* ModeOf with a one-bit mask.
ModeOfOneBit(b) == BitAnd(b, 1)

\* packet.Mode: bits 1-2 of byte 18.
ModeOf(b) == BitAnd(b, 3)

\* packet.ColorID: the byte shifted right by 2, masked with 0x70.
ColorIDOf(b) == BitAnd(Shr(b, 2), 112)

\* packet.ProbeID: the byte shifted right by 5, masked with 0x70.
ProbeIDOf(b) == BitAnd(Shr(b, 5), 112)

\* The raw 13-bit reading of thermistor k + 1, read after bytes 5..17 were
\* reversed.  Each operand is a uint16.
RawTemp(rawPacket, k) ==
    CASE k = 7 -> BitOr(Shl16(BitAnd(rawPacket[5], 255), 5), Shr(rawPacket[6], 3))
      [] k = 6 -> BitOr(BitOr(Shl16(BitAnd(rawPacket[6], 7), 10),
                              Shl16(BitAnd(rawPacket[7], 255), 2)),
                        Shr(BitAnd(rawPacket[8], 192), 6))
      [] k = 5 -> BitOr(Shl16(BitAnd(rawPacket[8], 63), 7),
                        Shr(BitAnd(rawPacket[9], 254), 1))
      [] k = 4 -> BitOr(BitOr(Shl16(BitAnd(rawPacket[9], 1), 12),
                              Shl16(BitAnd(rawPacket[10], 255), 4)),
                        Shr(BitAnd(rawPacket[11], 240), 4))
      [] k = 3 -> BitOr(BitOr(Shl16(BitAnd(rawPacket[11], 15), 9),
                              Shl16(BitAnd(rawPacket[12], 255), 1)),
                        Shr(BitAnd(rawPacket[13], 128), 7))
      [] k = 2 -> BitOr(Shl16(BitAnd(rawPacket[13], 127), 6),
                        Shr(BitAnd(rawPacket[14], 252), 2))
      [] k = 1 -> BitOr(BitOr(Shl16(BitAnd(rawPacket[14], 3), 11),
                              Shl16(BitAnd(rawPacket[15], 255), 3)),
                        Shr(BitAnd(rawPacket[16], 224), 5))
      [] k = 0 -> BitOr(Shl16(BitAnd(rawPacket[16], 31), 8),
                        BitAnd(rawPacket[17], 255))

\* TempsOf with the eight readings stored in the opposite order.
TempsOfMirrored(rawPacket, mode, fused) ==
    IF mode = CombustionModeInstantRead
    THEN [k \in 0..0 |-> fromRawTemp(RawTemp(rawPacket, 0), fused)]
    ELSE IF mode = CombustionModeNormal
         THEN [k \in 0..7 |-> fromRawTemp(RawTemp(rawPacket, 7 - k), fused)]
         ELSE <<>>

\* packet.Temps for the mode: one reading, eight readings, or the nil slice.
TempsOf(rawPacket, mode, fused) ==
    IF mode = CombustionModeInstantRead
    THEN [k \in 0..0 |-> fromRawTemp(RawTemp(rawPacket, 0), fused)]
    ELSE IF mode = CombustionModeNormal
         THEN [k \in 0..7 |-> fromRawTemp(RawTemp(rawPacket, k), fused)]
         ELSE <<>>

\* packet.BatteryOK: bit 1 of byte 19 is clear.
BatteryOKOf(b) == BitAnd(b, 1) = 0

\* packet.VirtualCoreIndex: bits 2-4 of byte 19.
VirtualCoreIndexOf(b) == BitAnd(Shr(b, 1), 7)

\* packet.VirtualSurfaceIndex: bits 5-6 of byte 19, plus 3.
VirtualSurfaceIndexOf(b) == AddByte(BitAnd(Shr(b, 4), 3), 3)

\* VirtualAmbientIndexOf with an offset of 5.
VirtualAmbientIndexOfFive(b) == AddByte(BitAnd(Shr(b, 6), 3), 5)

\* packet.VirtualAmbientIndex: bits 7-8 of byte 19, plus 4.
VirtualAmbientIndexOf(b) == AddByte(BitAnd(Shr(b, 6), 3), 4)

RECURSIVE OverheatingLoop(_, _, _, _)
\* The loop over i = 0..7 with ohMask starting at 0x80 and halved each turn.
OverheatingLoop(i, ohMask, acc, b) ==
    IF i = 8 THEN acc
    ELSE OverheatingLoop(i + 1, Shr(ohMask, 1),
                         [acc EXCEPT ![7 - i] = (BitAnd(b, ohMask) = ohMask)], b)

\* OverheatingOf with the flags stored at i instead of 7 - i.
OverheatingOfMirrored(b) ==
    [k \in 0..7 |-> OverheatingLoop(0, 128, [j \in 0..7 |-> FALSE], b)[7 - k]]

\* packet.Overheating: the zero-valued [8]bool filled by the loop.
OverheatingOf(b) == OverheatingLoop(0, 128, [k \in 0..7 |-> FALSE], b)

\* ------------------------------------------ ExtractCombustionPacket

\* No packet: what a caller holds before a call and after a call that
\* did not return.
NoPacket == [ProductType |-> CombustionUnknownPT, SerialNumber |-> <<>>]

\* A run-time panic (index or slice bounds out of range) unwinds the call:
\* nothing is returned, the writes already made to the buffer stay.
Panicked(rawPacket) ==
    [outcome |-> "panic", rawPacket |-> rawPacket, packet |-> NoPacket]

\* The call on a buffer of length n whose backing array is rawPacket
\* (capacity SliceLen(rawPacket)).  An index expression checks the length,
\* a slice expression the capacity.
ExtractCombustionPacket(rawPacket, n, fused) ==
    IF n <= 0 THEN Panicked(rawPacket)
    ELSE IF SliceLen(rawPacket) < 5 THEN Panicked(rawPacket)
    ELSE LET r1 == Reverse(rawPacket, 1, 5)
         IN  IF n <= 18 THEN Panicked(r1)
             ELSE LET mode == ModeOf(r1[18])
                      r2   == Reverse(r1, 5, 18)
                  IN  IF n <= 19 THEN Panicked(r2)
                      ELSE IF n <= 21 THEN Panicked(r2)
                      ELSE [outcome   |-> "returned",
                            rawPacket |-> r2,
                            packet    |->
                              [ProductType         |-> ProductTypeOf(rawPacket),
                               SerialNumber        |-> SerialNumberOf(r1),
                               Temps               |-> TempsOf(r2, mode, fused),
                               Mode                |-> mode,
                               ColorID             |-> ColorIDOf(r1[18]),
                               ProbeID             |-> ProbeIDOf(r1[18]),
                               BatteryOK           |-> BatteryOKOf(r2[19]),
                               VirtualCoreIndex    |-> VirtualCoreIndexOf(r2[19]),
                               VirtualSurfaceIndex |-> VirtualSurfaceIndexOf(r2[19]),
                               VirtualAmbientIndex |-> VirtualAmbientIndexOf(r2[19]),
                               Overheating         |-> OverheatingOf(r2[21])]]

\* ------------------------------------------------- the example handler

\* The callback of example/cmd/main.go: with more than one temperature it
\* indexes Temps with the three virtual indices (a run-time panic when one
\* is out of range) and prints; otherwise it does nothing.
ExampleHandler(packet) ==
    IF SliceLen(packet.Temps) > 1
    THEN IF /\ packet.VirtualCoreIndex < SliceLen(packet.Temps)
            /\ packet.VirtualSurfaceIndex < SliceLen(packet.Temps)
            /\ packet.VirtualAmbientIndex < SliceLen(packet.Temps)
         THEN "printed"
         ELSE "panic"
    ELSE "skipped"

\* ----------------------------------------------------------- inputs

\* The highest offset the decoder reads.
LastOffset == 21

\* Three manufacturer-data payloads, offsets 0..21: one all zero; one of a
\* probe in Normal mode with every field populated; one all ones but for
\* byte 18, which selects InstantRead.
ZeroPayload ==
    <<0, 0, 0, 0, 0, 0, 0, 0, 0, 0, 0, 0, 0, 0, 0, 0, 0, 0, 0, 0, 0, 0>>
NormalPayload ==
    <<1, 16, 0, 26, 196, 91, 195, 30, 167, 66, 240, 13, 150, 60, 225, 120,
      43, 212, 172, 154, 0, 165>>
InstantPayload ==
    <<255, 255, 255, 255, 255, 255, 255, 255, 255, 255, 255, 255, 255, 255,
      255, 255, 255, 255, 253, 255, 255, 255>>

Payloads == {ZeroPayload, NormalPayload, InstantPayload}

\* Byte i of the memory a payload lies in: the payload, then whatever
\* follows it in the advertisement.
MemoryByte(payload, i) ==
    IF i <= LastOffset THEN payload[i + 1] ELSE (i * 7 + 3) % 256

\* A buffer of length n and capacity c over a payload.
Buffer(payload, n, c) ==
    [rawPacket |-> [i \in 0..(c - 1) |-> MemoryByte(payload, i)], rawLen |-> n]

\* A buffer of exactly LastOffset + 1 bytes with byte i set to v.
WithByte(payload, i, v) ==
    [rawPacket |-> [j \in 0..LastOffset |-> IF j = i THEN v ELSE payload[j + 1]],
     rawLen    |-> LastOffset + 1]

\* Buffers too short to decode, with and without spare capacity.
ShortInputs ==
    {Buffer(p, n, n + slack) :
        p \in Payloads, n \in 0..LastOffset, slack \in 0..MaxSlack}

\* Buffers long enough, up to MaxExtra bytes longer than needed.
LongInputs ==
    {Buffer(p, n, n) :
        p \in Payloads, n \in (LastOffset + 1)..(LastOffset + 1 + MaxExtra)}

\* Byte values with one bit set, none and all.
SparseBytes == {0, 1, 2, 4, 8, 16, 32, 64, 128, 255}

\* Every value of every byte of the Normal payload, and the sparse values
\* of every byte of every payload.
FocusInputs ==
    {WithByte(NormalPayload, i, v) : i \in 0..LastOffset, v \in Byte}
    \cup {WithByte(p, i, v) :
            p \in Payloads, i \in 0..LastOffset, v \in SparseBytes}

\* The buffers a caller hands to the decoder.
Inputs == ShortInputs \cup LongInputs \cup FocusInputs

\* The buffers the adapter delivers: short and long ones, and every value
\* of the byte that holds the virtual sensor indices.
ScanInputs ==
    ShortInputs \cup LongInputs
    \cup {WithByte(p, 19, v) : p \in {NormalPayload, InstantPayload}, v \in Byte}

\* ------------------------------------------------------------ state

VARIABLES
    rawPacket,      \* the memory behind the buffer handed to the decoder
    rawLen,         \* len of that buffer
    entry,          \* rawPacket as the latest call of the decoder found it
    calls,          \* calls of the decoder on this buffer so far
    outcome,        \* "none", "returned" or "panic": how the latest call ended
    packet,         \* the packet the latest call returned
    firstPacket,    \* the packet the first call on this buffer returned
    packetHandler,  \* Combustion.packetHandler: "nil" or "example"
    BluetoothAdapter, \* Combustion.BluetoothAdapter: "nil" or "default"
    scanning,       \* the adapter is scanning and delivers to onScan
    handled,        \* what the packet handler did with the latest packet
    fused           \* the build fuses float32 multiply and subtract

vars == <<rawPacket, rawLen, entry, calls, outcome, packet, firstPacket,
          packetHandler, BluetoothAdapter, scanning, handled, fused>>

\* c := &combustion.Combustion{}, with a buffer from the set given.
InitWith(inputs) ==
    /\ \E in \in inputs :
        /\ rawPacket = in.rawPacket
        /\ rawLen = in.rawLen
        /\ entry = in.rawPacket
    /\ fused \in BOOLEAN
    /\ calls = 0
    /\ outcome = "none"
    /\ packet = NoPacket
    /\ firstPacket = NoPacket
    /\ packetHandler = "nil"
    /\ BluetoothAdapter = "nil"
    /\ scanning = FALSE
    /\ handled = "none"

\* The program with a buffer the adapter is about to deliver.
Init == InitWith(ScanInputs)

\* A caller of the decoder with a buffer of its own.
DecoderInit == InitWith(Inputs)

\* A panic ends the program.
Running == outcome # "panic" /\ handled # "panic"

\* The effect of one call of the decoder on the buffer.
Call(res) ==
    /\ entry' = rawPacket
    /\ rawPacket' = res.rawPacket
    /\ outcome' = res.outcome
    /\ packet' = res.packet
    /\ calls' = calls + 1
    /\ firstPacket' = IF calls = 0 THEN res.packet ELSE firstPacket

\* A caller holding the buffer calls c.ExtractCombustionPacket(rawPacket).
Extract ==
    /\ Running
    /\ calls < MaxCalls
    /\ \E res \in {ExtractCombustionPacket(rawPacket, rawLen, fused)} : Call(res)
    /\ UNCHANGED <<rawLen, packetHandler, BluetoothAdapter, scanning, handled,
                   fused>>

\* c.StartMonitoring(callback): the handler is stored, the default adapter
\* taken when none is set, and Enable and Scan either both succeed (the
\* adapter then delivers scan results to onScan) or one returns an error,
\* which leaves a scan already under way as it is.
StartMonitoring(callback, ok) ==
    /\ Running
    /\ packetHandler' = callback
    /\ BluetoothAdapter' = "default"
    /\ scanning' = (scanning \/ ok)
    /\ UNCHANGED <<rawPacket, rawLen, entry, calls, outcome, packet,
                   firstPacket, handled, fused>>

\* c.StopMonitoring(): StopScan on the adapter when there is one.
StopMonitoring ==
    /\ Running
    /\ scanning' = IF BluetoothAdapter # "nil" THEN FALSE ELSE scanning
    /\ UNCHANGED <<rawPacket, rawLen, entry, calls, outcome, packet,
                   firstPacket, packetHandler, BluetoothAdapter, handled, fused>>

\* onScan on a scan result whose first manufacturer-data element, when there
\* is one (hasData), carries companyID and the buffer as its Data: a
\* Combustion advertisement is decoded and handed to the handler, when set.
onScan(hasData, companyID) ==
    /\ Running
    /\ scanning
    /\ IF hasData /\ companyID = CombustionManufacuterID
       THEN /\ calls < MaxCalls
            /\ \E res \in {ExtractCombustionPacket(rawPacket, rawLen, fused)} :
                  /\ Call(res)
                  /\ handled' = IF res.outcome = "returned" /\ packetHandler # "nil"
                                THEN ExampleHandler(res.packet)
                                ELSE handled
       ELSE UNCHANGED <<rawPacket, entry, calls, outcome, packet, firstPacket,
                        handled>>
    /\ UNCHANGED <<rawLen, packetHandler, BluetoothAdapter, scanning, fused>>

Next ==
    \/ Extract
    \/ \E callback \in {"nil", "example"}, ok \in BOOLEAN :
          StartMonitoring(callback, ok)
    \/ StopMonitoring
    \/ \E hasData \in BOOLEAN, companyID \in {CombustionManufacuterID, 76} :
          onScan(hasData, companyID)

\* The whole program.
Spec == Init /\ [][Next]_vars

\* The decoder alone, called directly on every input.
DecoderSpec == DecoderInit /\ [][Extract]_vars

\* ====================================================== properties

\* A call of the decoder has ended on a buffer of at least 22 bytes.
DecodedLong == calls > 0 /\ rawLen > LastOffset

\* A call of the decoder has ended on a buffer of fewer than 22 bytes.
DecodedShort == calls > 0 /\ rawLen <= LastOffset

\* Bit n (0 = least significant) of the byte b.
BitOf(b, n) == (b \div Pow2(n)) % 2

\* Bit n of the little-endian integer formed by bytes 5..17 of e.
WireBit(e, n) == BitOf(e[5 + n \div 8], n % 8)

RECURSIVE WireField(_, _, _)
\* The value of bits 13k+j .. 13k+12 of that integer, as a number whose
\* bit 0 is bit 13k+j; WireField(e, k, 0) is the whole 13-bit field k.
WireField(e, k, j) ==
    IF j = 13 THEN 0
    ELSE WireBit(e, 13 * k + j) + 2 * WireField(e, k, j + 1)

\* The lowercase hexadecimal digits.
LowerHexDigits ==
    {"0", "1", "2", "3", "4", "5", "6", "7", "8", "9", "a", "b", "c", "d", "e", "f"}

\* The value of a lowercase hexadecimal digit.
HexValue(ch) ==
    CASE ch = "0" -> 0 [] ch = "1" -> 1 [] ch = "2" -> 2 [] ch = "3" -> 3
      [] ch = "4" -> 4 [] ch = "5" -> 5 [] ch = "6" -> 6 [] ch = "7" -> 7
      [] ch = "8" -> 8 [] ch = "9" -> 9 [] ch = "a" -> 10 [] ch = "b" -> 11
      [] ch = "c" -> 12 [] ch = "d" -> 13 [] ch = "e" -> 14 [] ch = "f" -> 15

\* C1 (as claimed): a call on a buffer of 0..21 bytes ends with the
\* TruncatedPacket fault as its result: it does not abort and it hands back
\* no packet.  The code has no length check: the call panics.
C1_TruncatedPacketFault ==
    DecodedShort =>
        /\ outcome = "TruncatedPacket"
        /\ outcome # "panic"
        /\ packet = NoPacket

\* C2 (as claimed): when a call on a buffer of at least 22 bytes has
\* returned, every byte of the buffer is what it was when the call began.
\* The code reverses bytes 1..4 and 5..17 in the caller's buffer.
C2_InputUnchanged ==
    (DecodedLong /\ outcome = "returned") => rawPacket = entry

\* C3 (as claimed): a second call handed the same buffer, with no caller
\* write in between, returns the packet the first call returned.  The first
\* call left the buffer reversed (C2), so the second decodes other bytes.
C3_SameBufferSamePacket ==
    (DecodedLong /\ calls = 2 /\ outcome = "returned") => packet = firstPacket

\* C4: a call on at least 22 bytes returns, and the number of temperatures
\* depends on bits 0-1 of byte 18 alone: 8 for Normal (0), 1 for
\* InstantRead (1), 0 for Reserved (2) and Error (3).
C4_TempsLengthByMode ==
    DecodedLong =>
        /\ outcome = "returned"
        /\ packet.Mode = entry[18] % 4
        /\ SliceLen(packet.Temps) =
              CASE entry[18] % 4 = CombustionModeNormal -> 8
                [] entry[18] % 4 = CombustionModeInstantRead -> 1
                [] entry[18] % 4 = CombustionModeReserved -> 0
                [] entry[18] % 4 = CombustionModeError -> 0

\* C4 witness: calls have returned one temperature in InstantRead mode.
C4_Witness ==
    /\ DecodedLong
    /\ outcome = "returned"
    /\ entry[18] % 4 = CombustionModeInstantRead
    /\ SliceLen(packet.Temps) = 1

\* C5: in Normal mode Temps[k], for k in 0..7, is the conversion of the
\* 13-bit field at bits 13k..13k+12 of the little-endian integer formed by
\* bytes 5..17 of the buffer as the call found it.
C5_NormalTempsLayout ==
    (DecodedLong /\ entry[18] % 4 = CombustionModeNormal) =>
        /\ outcome = "returned"
        /\ DOMAIN packet.Temps = 0..7
        /\ \A k \in 0..7 :
              packet.Temps[k] = fromRawTemp(WireField(entry, k, 0), fused)

\* C5 witness: a Normal-mode packet whose first and last fields differ, the
\* last one with its top bit (bit 103 of the integer) set.
C5_Witness ==
    /\ DecodedLong
    /\ outcome = "returned"
    /\ entry[18] % 4 = CombustionModeNormal
    /\ entry[17] >= 128
    /\ WireField(entry, 7, 0) >= 4096
    /\ packet.Temps[7] # packet.Temps[0]

C7_SerialNumberHex ==
    DecodedLong =>
        /\ outcome = "returned"
        /\ Len(packet.SerialNumber) = 8
        /\ \A j \in 1..8 : packet.SerialNumber[j] \in LowerHexDigits
        /\ \A i \in 0..3 :
              16 * HexValue(packet.SerialNumber[2 * i + 1])
                + HexValue(packet.SerialNumber[2 * i + 2]) = entry[4 - i]

\* C7 witness: bytes 1..4 = 10 00 1a c4 have been decoded to "c41a0010".
C7_Witness ==
    /\ DecodedLong
    /\ outcome = "returned"
    /\ <<entry[1], entry[2], entry[3], entry[4]>> = <<16, 0, 26, 196>>
    /\ packet.SerialNumber = <<"c", "4", "1", "a", "0", "0", "1", "0">>

\* C8: whatever byte 19 is, VirtualCoreIndex is in 0..7, VirtualSurfaceIndex
\* in 3..6 and VirtualAmbientIndex in 4..7; so with more than one temperature
\* all three index Temps, and the example handler never panics.
C8_VirtualIndicesInRange ==
    DecodedLong =>
        /\ outcome = "returned"
        /\ packet.VirtualCoreIndex \in 0..7
        /\ packet.VirtualSurfaceIndex \in 3..6
        /\ packet.VirtualAmbientIndex \in 4..7
        /\ SliceLen(packet.Temps) > 1 =>
              /\ packet.VirtualCoreIndex \in DOMAIN packet.Temps
              /\ packet.VirtualSurfaceIndex \in DOMAIN packet.Temps
              /\ packet.VirtualAmbientIndex \in DOMAIN packet.Temps
        /\ handled # "panic"

\* C8 witness: the example handler has printed a packet whose three virtual
\* indices are the largest ones, 7, 6 and 7.
C8_Witness ==
    /\ DecodedLong
    /\ handled = "printed"
    /\ packet.VirtualCoreIndex = 7
    /\ packet.VirtualSurfaceIndex = 6
    /\ packet.VirtualAmbientIndex = 7

\* C9: in every mode Overheating[i], for i in 0..7, is true exactly when bit
\* i of byte 21 is set.
C9_OverheatingBits ==
    DecodedLong =>
        /\ outcome = "returned"
        /\ DOMAIN packet.Overheating = 0..7
        /\ \A i \in 0..7 : packet.Overheating[i] = (BitOf(entry[21], i) = 1)

\* C9 witness: byte 21 = 0x80 has been decoded: only Overheating[7] is set.
C9_Witness ==
    /\ DecodedLong
    /\ outcome = "returned"
    /\ entry[21] = 128
    /\ packet.Overheating[7]
    /\ \A i \in 0..6 : ~packet.Overheating[i]

\* C10 (as claimed): Mode is decided by exactly bits 0-1 of byte 18, ColorID
\* by exactly bits 2-4 and ProbeID by exactly bits 5-7: any other byte b
\* decodes to the same field value exactly when it agrees with byte 18 on
\* that bit range; and byte 18 = 0 gives Normal, 0 and 0.
C10_FieldBitRanges ==
    (DecodedLong /\ outcome = "returned") =>
        /\ \A b \in Byte :
              /\ (ModeOf(b) = packet.Mode) <=> (b % 4 = entry[18] % 4)
              /\ (ColorIDOf(b) = packet.ColorID)
                    <=> ((b \div 4) % 8 = (entry[18] \div 4) % 8)
              /\ (ProbeIDOf(b) = packet.ProbeID)
                    <=> ((b \div 32) % 8 = (entry[18] \div 32) % 8)
        /\ entry[18] = 0 =>
              /\ packet.Mode = CombustionModeNormal
              /\ packet.ColorID = 0
              /\ packet.ProbeID = 0

====
